---- MODULE Spec2Model ----
(***************************************************************************)
(* Model of the pmd_sir0 crate (src/src/sir0.rs): the container parser     *)
(* Sir0::new with its pointer-table decoder, the fixed-header writer       *)
(* write_sir0_header and the footer writer write_sir0_footer.              *)
(*                                                                         *)
(* A u64 that can actually grow to 64 bits (the decoder's accumulator and  *)
(* running position) is kept as three limbs, hi (8 bits), mid (28 bits)    *)
(* and lo (28 bits), value = hi * 2^56 + mid * 2^28 + lo, so that shifts   *)
(* and additions lose or carry bits exactly where the 64-bit register      *)
(* does.  Quantities bounded by the size of the file (positions, lengths,  *)
(* the two header fields of the files drawn here) are plain integers.      *)
(***************************************************************************)
EXTENDS Integers, Sequences, FiniteSets, TLC

VARIABLES
    pc,                     \* position in Sir0::new or in the writer scenario
    file,                   \* the bytes of the stream given to Sir0::new
    pos,                    \* the stream's cursor
    magic,                  \* Sir0::new local
    header_offset,          \* Sir0::new local
    pointer_offset,         \* Sir0::new local
    header,                 \* Sir0::new local: the cloned payload block
    file_lenght,            \* Sir0::new local
    remaining_bytes,        \* Sir0::new local
    i,                      \* iterations of the decoding loop done so far
    dec,                    \* the decoding loop's locals
    result,                 \* what Sir0::new returned
    list,                   \* write_sir0_footer argument
    idx,                    \* entries of list already handled
    latest_written_pointer, \* write_sir0_footer local
    sink,                   \* bytes written to the writer's file
    u8_overflow,            \* a byte computation of the writer exceeded 8 bits
    wresult,                \* what write_sir0_footer returned
    readback                \* the decoder's output on the written bytes

vars == <<pc, file, pos, magic, header_offset, pointer_offset, header,
          file_lenght, remaining_bytes, i, dec, result,
          list, idx, latest_written_pointer, sink, u8_overflow, wresult,
          readback>>

(***************************************************************************)
(* Bounds of the model.                                                    *)
(***************************************************************************)
MaxChunks == 3      \* chunks concatenated to form the bytes after the fixed header
MaxPad == 2         \* the two header fields range over 12 .. 12 + MaxPad
MaxList == 3        \* entries of the list given to write_sir0_footer

(***************************************************************************)
(* 64-bit unsigned arithmetic on limbs.                                    *)
(***************************************************************************)
Limb == 2^28
LimbTop == 2^21

U64(h, m, l) == [hi |-> h, mid |-> m, lo |-> l]

\* `x as u64` for an x below 2^31
as_u64(n) == U64(0, n \div Limb, n % Limb)

\* u64::checked_add: None on overflow
checked_add_wrapping(a, b) ==
    LET l == a.lo + b.lo
        m == a.mid + b.mid + (l \div Limb)
        h == a.hi + b.hi + (m \div Limb)
    IN  [some |-> TRUE, v |-> U64(h % 256, m % Limb, l % Limb)]

checked_add(a, b) ==
    LET l == a.lo + b.lo
        m == a.mid + b.mid + (l \div Limb)
        h == a.hi + b.hi + (m \div Limb)
    IN  IF h >= 256
        THEN [some |-> FALSE, v |-> a]
        ELSE [some |-> TRUE, v |-> U64(h, m % Limb, l % Limb)]

\* u64::overflowing_shl(7).0: the shift amount 7 is below 64, so the value is
\* shifted and the bits pushed past bit 63 are dropped
overflowing_shl7(a) ==
    U64((a.hi % 2) * 128 + (a.mid \div LimbTop),
        (a.mid % LimbTop) * 128 + (a.lo \div LimbTop),
        (a.lo % LimbTop) * 128)

RECURSIVE BitAnd(_, _)
BitAnd(x, y) ==
    IF x = 0 \/ y = 0 THEN 0
    ELSE (IF x % 2 = 1 /\ y % 2 = 1 THEN 1 ELSE 0) + 2 * BitAnd(x \div 2, y \div 2)

RECURSIVE BitOr(_, _)
BitOr(x, y) ==
    IF x = 0 THEN y
    ELSE IF y = 0 THEN x
    ELSE (IF x % 2 = 1 \/ y % 2 = 1 THEN 1 ELSE 0) + 2 * BitOr(x \div 2, y \div 2)

\* a | (b as u64) for a b below 2^28
or_u64(a, b) == U64(a.hi, a.mid, BitOr(a.lo, b))

\* constructed_pointer.overflowing_shl(7).0 | ((current & 0x7F) as u64)
fold7(constructed_pointer, current) ==
    or_u64(overflowing_shl7(constructed_pointer), BitAnd(current, 127))

(***************************************************************************)
(* The stream: a Cursor over the bytes of the file.                        *)
(***************************************************************************)
MAGIC == <<83, 73, 82, 48>>

\* read_exact of n bytes at cursor p: the bytes, or an UnexpectedEof error
read_exact_zero_fill(f, p, n) ==
    [ok |-> TRUE,
     bytes |-> [k \in 1..n |-> IF p + k <= Len(f) THEN f[p + k] ELSE 0]]

read_exact(f, p, n) ==
    IF p + n <= Len(f)
    THEN [ok |-> TRUE, bytes |-> SubSeq(f, p + 1, p + n)]
    ELSE [ok |-> FALSE, bytes |-> <<>>]

\* u32::from_le_bytes
from_le_bytes(b) == b[1] + 256 * b[2] + 65536 * b[3] + 16777216 * b[4]

\* u32::to_le_bytes
to_le_bytes(n) ==
    <<n % 256, (n \div 256) % 256, (n \div 65536) % 256, (n \div 16777216) % 256>>

\* the 12 bytes write_sir0_header writes
write_sir0_header(ho, po) == MAGIC \o to_le_bytes(ho) \o to_le_bytes(po)

\* pointer_offset.checked_sub(header_offset)
header_lenght(ho, po) ==
    IF po >= ho THEN [some |-> TRUE, v |-> po - ho] ELSE [some |-> FALSE, v |-> 0]

\* clone_into_vec(&mut file, start, length): seek to start, then read exactly
\* length bytes
clone_into_vec(f, start, length) ==
    IF length = 0 THEN [ok |-> TRUE, bytes |-> <<>>]
    ELSE read_exact(f, start, length)

\* file_lenght.checked_sub(pointer_offset).map(|n| n.checked_sub(1)).flatten()
remaining_bytes_no_trailing(flen, po) ==
    IF flen >= po THEN [some |-> TRUE, v |-> flen - po] ELSE [some |-> FALSE, v |-> 0]

remaining_bytes_of(flen, po) ==
    IF flen >= po /\ flen - po >= 1
    THEN [some |-> TRUE, v |-> flen - po - 1]
    ELSE [some |-> FALSE, v |-> 0]

(***************************************************************************)
(* The decoding loop.                                                      *)
(***************************************************************************)
Zero64 == U64(0, 0, 0)

DecInit ==
    [absolute_pointers |-> <<>>,
     is_constructing |-> FALSE,
     constructed_pointer |-> Zero64,
     absolute_position |-> Zero64,
     status |-> "loop",
     err |-> <<>>]

\* absolute_position.checked_add(delta), then push, or AbsolutePointerOverflow
AddAndPush(d, delta) ==
    LET s == checked_add(d.absolute_position, delta)
    IN  IF s.some
        THEN [d EXCEPT !.absolute_position = s.v,
                       !.absolute_pointers = Append(d.absolute_pointers, s.v)]
        ELSE [d EXCEPT !.status = "overflow",
                       !.err = <<d.absolute_position, delta>>]

\* the branch ending a multi-byte group: fold, add, push, reset
EndGroup(d, current) ==
    LET c == fold7(d.constructed_pointer, current)
        a == AddAndPush([d EXCEPT !.constructed_pointer = c], c)
    IN  IF a.status = "loop"
        THEN [a EXCEPT !.is_constructing = FALSE, !.constructed_pointer = Zero64]
        ELSE a

\* one iteration of the loop on the byte current
LoopBody_zero_first(d, current) ==
    IF current = 0
    THEN [d EXCEPT !.status = "break"]
    ELSE IF current >= 128
    THEN [d EXCEPT !.is_constructing = TRUE,
                   !.constructed_pointer = fold7(d.constructed_pointer, current)]
    ELSE IF d.is_constructing
    THEN EndGroup(d, current)
    ELSE AddAndPush(d, as_u64(current))

LoopBody(d, current) ==
    IF current >= 128
    THEN [d EXCEPT !.is_constructing = TRUE,
                   !.constructed_pointer = fold7(d.constructed_pointer, current)]
    ELSE IF d.is_constructing
    THEN EndGroup(d, current)
    ELSE IF current = 0
    THEN [d EXCEPT !.status = "break"]
    ELSE AddAndPush(d, as_u64(current))

\* the loop `for _ in 0..n` reading from cursor p, as a function of the file
RECURSIVE DecodeLoop(_, _, _, _)
DecodeLoop(f, p, n, d) ==
    IF n = 0 \/ d.status # "loop" THEN d
    ELSE LET r == read_exact(f, p, 1)
         IN  IF r.ok
             THEN DecodeLoop(f, p + 1, n - 1, LoopBody(d, r.bytes[1]))
             ELSE [d EXCEPT !.status = "io"]

(***************************************************************************)
(* Sir0::new as a function of the file: what it returns.                   *)
(***************************************************************************)
NoSir0 == [present |-> FALSE, offsets |-> <<>>, header |-> <<>>]

Err(k, a) == [kind |-> k, args |-> a, sir0 |-> NoSir0]

Ok(offsets, hdr) ==
    [kind |-> "Ok", args |-> <<>>,
     sir0 |-> [present |-> TRUE, offsets |-> offsets, header |-> hdr]]

NoResult == [kind |-> "none", args |-> <<>>, sir0 |-> NoSir0]

\* magic != [b'S', b'I', b'R', b'0']
magic_differs_first_byte(m) == m[1] # MAGIC[1]

magic_differs(m) == m # MAGIC

\* what the loop's exit returns
LoopResult(d, hdr) ==
    CASE d.status = "overflow" -> Err("AbsolutePointerOverflow", d.err)
      [] d.status = "io" -> Err("IOError", <<>>)
      [] OTHER -> Ok(d.absolute_pointers, hdr)

Sir0_new(f) ==
    LET m == read_exact(f, 0, 4)
        h == read_exact(f, 4, 4)
        p == read_exact(f, 8, 4)
    IN  IF ~m.ok THEN Err("IOError", <<>>)
        ELSE IF magic_differs(m.bytes) THEN Err("InvalidMagic", m.bytes)
        ELSE IF ~h.ok \/ ~p.ok THEN Err("IOError", <<>>)
        ELSE LET ho == from_le_bytes(h.bytes)
                 po == from_le_bytes(p.bytes)
                 hl == header_lenght(ho, po)
             IN  IF ~hl.some THEN Err("PointerBeforeHeader", <<ho, po>>)
                 ELSE LET c == clone_into_vec(f, ho, hl.v)
                          r == remaining_bytes_of(Len(f), po)
                      IN  IF ~c.ok THEN Err("CloneHeaderError", <<>>)
                          ELSE IF ~r.some
                          THEN Err("PointerOffsetPostOrAtFileEnd", <<po, Len(f)>>)
                          ELSE LoopResult(DecodeLoop(f, po, r.v, DecInit), c.bytes)

(***************************************************************************)
(* The files given to Sir0::new.                                           *)
(***************************************************************************)
Chunks ==
    { <<0>>,                                        \* the terminator
      <<4>>,                                        \* a one-byte delta
      <<128, 0>>,                                   \* a two-byte group worth 0
      <<129, 2>>,                                   \* a two-byte group worth 130
      <<255>>,                                      \* a continuation byte
      <<255, 255, 255, 255, 255, 255, 255, 255, 255, 127>>,  \* 70 set bits
      <<129, 128, 128, 128, 128, 128, 128, 128, 128, 0>> }   \* 2^63

RECURSIVE Bodies(_)
Bodies(n) ==
    IF n = 0 THEN {<<>>}
    ELSE LET B == Bodies(n - 1) IN B \cup {b \o c : b \in B, c \in Chunks}

Offsets == (12 .. 12 + MaxPad) \cup {270, 16777228}

BadMagics == {<<83, 73, 82, 49>>, <<0, 73, 82, 48>>}

Files ==
    {write_sir0_header(ho, po) \o b :
        ho \in 12 .. 12 + MaxPad, po \in Offsets, b \in Bodies(MaxChunks)}
    \cup {m \o to_le_bytes(12) \o to_le_bytes(12) \o b :
            m \in BadMagics, b \in Bodies(1)}
    \cup {SubSeq(m \o to_le_bytes(12) \o to_le_bytes(12), 1, n) :
            m \in BadMagics \cup {MAGIC}, n \in 0 .. 11}

(***************************************************************************)
(* Sir0::new, step by step.                                                *)
(***************************************************************************)
WriterIdle ==
    /\ list = <<>>
    /\ idx = 0
    /\ latest_written_pointer = 0
    /\ sink = <<>>
    /\ u8_overflow = FALSE
    /\ wresult = [kind |-> "none", args |-> <<>>]
    /\ readback = NoResult

ReaderIdle ==
    /\ file = <<>>
    /\ pos = 0
    /\ magic = <<>>
    /\ header_offset = 0
    /\ pointer_offset = 0
    /\ header = <<>>
    /\ file_lenght = 0
    /\ remaining_bytes = 0
    /\ i = 0
    /\ dec = DecInit
    /\ result = NoResult

InitRead ==
    /\ pc = "new"
    /\ file \in Files
    /\ pos = 0
    /\ magic = <<>>
    /\ header_offset = 0
    /\ pointer_offset = 0
    /\ header = <<>>
    /\ file_lenght = 0
    /\ remaining_bytes = 0
    /\ i = 0
    /\ dec = DecInit
    /\ result = NoResult
    /\ WriterIdle

writerVars == <<list, idx, latest_written_pointer, sink, u8_overflow, wresult, readback>>

Return(r) == /\ pc' = "done" /\ result' = r

\* lines 38-43: seek to 0, read the magic, compare it
ReadMagic ==
    /\ pc = "new"
    /\ LET r == read_exact(file, 0, 4)
       IN  IF ~r.ok
           THEN /\ Return(Err("IOError", <<>>))
                /\ UNCHANGED <<magic, pos>>
           ELSE /\ magic' = r.bytes
                /\ pos' = 4
                /\ IF magic_differs(r.bytes)
                   THEN Return(Err("InvalidMagic", r.bytes))
                   ELSE pc' = "offsets" /\ UNCHANGED result
    /\ UNCHANGED <<file, header_offset, pointer_offset, header, file_lenght,
                   remaining_bytes, i, dec>>
    /\ UNCHANGED writerVars

\* lines 45-56: the two little-endian fields and the checked subtraction
ReadOffsets ==
    /\ pc = "offsets"
    /\ LET h == read_exact(file, pos, 4)
           p == read_exact(file, pos + 4, 4)
       IN  IF ~h.ok
           THEN /\ Return(Err("IOError", <<>>))
                /\ UNCHANGED <<pos, header_offset, pointer_offset>>
           ELSE IF ~p.ok
           THEN /\ Return(Err("IOError", <<>>))
                /\ pos' = pos + 4
                /\ header_offset' = from_le_bytes(h.bytes)
                /\ UNCHANGED pointer_offset
           ELSE /\ pos' = pos + 8
                /\ header_offset' = from_le_bytes(h.bytes)
                /\ pointer_offset' = from_le_bytes(p.bytes)
                /\ IF header_lenght(header_offset', pointer_offset').some
                   THEN pc' = "clone" /\ UNCHANGED result
                   ELSE Return(Err("PointerBeforeHeader",
                                   <<header_offset', pointer_offset'>>))
    /\ UNCHANGED <<file, magic, header, file_lenght, remaining_bytes, i, dec>>
    /\ UNCHANGED writerVars

\* lines 58-59: the payload block is copied out of the stream
CloneHeader ==
    /\ pc = "clone"
    /\ LET hl == header_lenght(header_offset, pointer_offset).v
           c == clone_into_vec(file, header_offset, hl)
       IN  IF c.ok
           THEN /\ header' = c.bytes
                /\ pos' = header_offset + hl
                /\ pc' = "seek"
                /\ UNCHANGED result
           ELSE /\ Return(Err("CloneHeaderError", <<>>))
                /\ UNCHANGED <<header, pos>>
    /\ UNCHANGED <<file, magic, header_offset, pointer_offset, file_lenght,
                   remaining_bytes, i, dec>>
    /\ UNCHANGED writerVars

\* lines 61-81: the file's length, the seek to the table, the byte budget
SeekTable ==
    /\ pc = "seek"
    /\ file_lenght' = Len(file)
    /\ pos' = pointer_offset
    /\ LET r == remaining_bytes_of(file_lenght', pointer_offset)
       IN  IF r.some
           THEN /\ remaining_bytes' = r.v
                /\ pc' = "decode"
                /\ UNCHANGED result
           ELSE /\ Return(Err("PointerOffsetPostOrAtFileEnd",
                              <<pointer_offset, file_lenght'>>))
                /\ UNCHANGED remaining_bytes
    /\ UNCHANGED <<file, magic, header_offset, pointer_offset, header, i, dec>>
    /\ UNCHANGED writerVars

\* lines 82-119: one iteration of the loop
DecodeByte ==
    /\ pc = "decode"
    /\ i < remaining_bytes
    /\ LET r == read_exact(file, pos, 1)
       IN  IF ~r.ok
           THEN /\ Return(Err("IOError", <<>>))
                /\ UNCHANGED <<pos, i, dec>>
           ELSE /\ pos' = pos + 1
                /\ i' = i + 1
                /\ dec' = LoopBody(dec, r.bytes[1])
                /\ IF dec'.status = "loop"
                   THEN UNCHANGED <<pc, result>>
                   ELSE Return(LoopResult(dec', header))
    /\ UNCHANGED <<file, magic, header_offset, pointer_offset, header,
                   file_lenght, remaining_bytes>>
    /\ UNCHANGED writerVars

\* lines 119-125: the budget is used up, the container is returned
Finish ==
    /\ pc = "decode"
    /\ i = remaining_bytes
    /\ Return(LoopResult(dec, header))
    /\ UNCHANGED <<file, pos, magic, header_offset, pointer_offset, header,
                   file_lenght, remaining_bytes, i, dec>>
    /\ UNCHANGED writerVars

(***************************************************************************)
(* write_sir0_footer, one list entry per step, then the decoder run on the *)
(* bytes it wrote.                                                         *)
(***************************************************************************)
\* original_to_write.checked_sub(latest_written_pointer)
checked_sub_u32(a, b) ==
    IF a >= b THEN [some |-> TRUE, v |-> a - b] ELSE [some |-> FALSE, v |-> 0]

\* `x as u8`
as_u8(x) == x % 256

\* the loop filling reversed_to_write: base-128 digits, least significant first
RECURSIVE reversed_to_write_gt(_)
reversed_to_write_gt(remaining_to_write) ==
    IF remaining_to_write > 128
    THEN <<as_u8(remaining_to_write % 128)>>
         \o reversed_to_write_gt(remaining_to_write \div 128)
    ELSE <<as_u8(remaining_to_write)>>

RECURSIVE reversed_to_write(_)
reversed_to_write(remaining_to_write) ==
    IF remaining_to_write >= 128
    THEN <<as_u8(remaining_to_write % 128)>>
         \o reversed_to_write(remaining_to_write \div 128)
    ELSE <<as_u8(remaining_to_write)>>

\* the values handed to write_all, in the order written, before they are cut to
\* 8 bits: enumerate().rev(), counter 0 plain, the others + 0b1000_0000
written_values_unreversed(rev) ==
    [k \in 1 .. Len(rev) |->
        IF k = Len(rev) THEN rev[k] ELSE rev[k] + 128]

written_values(rev) ==
    [k \in 1 .. Len(rev) |->
        LET counter == Len(rev) - k
        IN  IF counter = 0 THEN rev[counter + 1] ELSE rev[counter + 1] + 128]

\* latest_written_pointer = original_to_write
next_latest_stale(original_to_write, latest) == latest

next_latest(original_to_write, latest) == original_to_write

Positions == {0, 4, 8, 127, 128, 130, 16383, 16384, 2097152, 268435456, 2147483647}

RECURSIVE Lists(_)
Lists(n) ==
    IF n = 0 THEN {<<>>}
    ELSE LET L == Lists(n - 1) IN L \cup {Append(l, x) : l \in L, x \in Positions}

InitWrite ==
    /\ pc = "write"
    /\ list \in Lists(MaxList)
    /\ idx = 0
    /\ latest_written_pointer = 0
    /\ sink = <<>>
    /\ u8_overflow = FALSE
    /\ wresult = [kind |-> "none", args |-> <<>>]
    /\ readback = NoResult
    /\ ReaderIdle

readerVars == <<file, pos, magic, header_offset, pointer_offset, header,
                file_lenght, remaining_bytes, i, dec, result>>

\* lines 180-214: one iteration of the loop over the list
WriteEntry ==
    /\ pc = "write"
    /\ idx < Len(list)
    /\ LET original_to_write == list[idx + 1]
           sub == checked_sub_u32(original_to_write, latest_written_pointer)
       IN  IF ~sub.some
           THEN /\ wresult' = [kind |-> "NotSorted",
                               args |-> <<original_to_write, latest_written_pointer>>]
                /\ pc' = "wfailed"
                /\ UNCHANGED <<idx, latest_written_pointer, sink, u8_overflow>>
           ELSE /\ latest_written_pointer' =
                       next_latest(original_to_write, latest_written_pointer)
                /\ idx' = idx + 1
                /\ IF sub.v = 0
                   THEN UNCHANGED <<sink, u8_overflow>>
                   ELSE LET w == written_values(reversed_to_write(sub.v))
                        IN  /\ sink' = sink \o [k \in 1 .. Len(w) |-> as_u8(w[k])]
                            /\ u8_overflow' =
                                   (u8_overflow \/ \E k \in 1 .. Len(w) : w[k] > 255)
                /\ UNCHANGED <<pc, wresult>>
    /\ UNCHANGED <<list, readback>>
    /\ UNCHANGED readerVars

\* line 216: the list is exhausted
WriteReturn ==
    /\ pc = "write"
    /\ idx = Len(list)
    /\ wresult' = [kind |-> "Ok", args |-> <<>>]
    /\ pc' = "written"
    /\ UNCHANGED <<list, idx, latest_written_pointer, sink, u8_overflow, readback>>
    /\ UNCHANGED readerVars

\* the decoding loop of Sir0::new on the bytes written, the whole run as the table
ReadBack ==
    /\ pc = "written"
    /\ readback' = LoopResult(DecodeLoop(sink, 0, Len(sink), DecInit), <<>>)
    /\ pc' = "readback"
    /\ UNCHANGED <<list, idx, latest_written_pointer, sink, u8_overflow, wresult>>
    /\ UNCHANGED readerVars

Init == InitRead \/ InitWrite

Next ==
    \/ ReadMagic \/ ReadOffsets \/ CloneHeader \/ SeekTable \/ DecodeByte \/ Finish
    \/ WriteEntry \/ WriteReturn \/ ReadBack

Spec == Init /\ [][Next]_vars

\* the step-by-step run returns what the function of the file returns
StepwiseAgrees == pc = "done" => result = Sir0_new(file)

(***************************************************************************)
(* Vocabulary of the properties: read off the inputs, not off the code.    *)
(***************************************************************************)
Le64(a, b) ==
    \/ a.hi < b.hi
    \/ a.hi = b.hi /\ a.mid < b.mid
    \/ a.hi = b.hi /\ a.mid = b.mid /\ a.lo <= b.lo

Lt64(a, b) == Le64(a, b) /\ a # b

\* b - a for a <= b, by borrowing
Sub64(b, a) ==
    LET l == b.lo - a.lo
        bl == IF l < 0 THEN 1 ELSE 0
        m == b.mid - a.mid - bl
        bm == IF m < 0 THEN 1 ELSE 0
    IN  U64(b.hi - a.hi - bm, m + bm * Limb, l + bl * Limb)

\* 2^64 - 1 - a
Compl64(a) == U64(255 - a.hi, Limb - 1 - a.mid, Limb - 1 - a.lo)

\* a + d does not fit in 64 bits
SumOverflows(a, d) == Lt64(Compl64(a), d)

NonDecreasing(o) == \A k \in 1 .. Len(o) - 1 : Le64(o[k], o[k + 1])

Small64(x) == x.hi = 0 /\ x.mid < 8

\* the offsets as integers, when they all are below 2^31
Values(o) == [k \in 1 .. Len(o) |-> o[k].mid * Limb + o[k].lo]

AllSmall(o) == \A k \in 1 .. Len(o) : Small64(o[k])

Prev(l, k) == IF k = 1 THEN 0 ELSE l[k - 1]

Delta(l, k) == l[k] - Prev(l, k)

Sorted(l) == \A k \in 1 .. Len(l) : Delta(l, k) >= 0

\* the entries of l that differ from their predecessor, in order
RECURSIVE Kept(_, _)
Kept(l, n) ==
    IF n = 0 THEN <<>>
    ELSE IF Delta(l, n) = 0 THEN Kept(l, n - 1)
    ELSE Append(Kept(l, n - 1), l[n])

\* the non-zero deltas of the first n entries of l, in order
RECURSIVE NonZeroDeltas(_, _)
NonZeroDeltas(l, n) ==
    IF n = 0 THEN <<>>
    ELSE IF Delta(l, n) = 0 THEN NonZeroDeltas(l, n - 1)
    ELSE Append(NonZeroDeltas(l, n - 1), Delta(l, n))

\* the byte run cut after every byte whose bit 0x80 is clear
RECURSIVE Groups(_, _)
Groups(bytes, cur) ==
    IF bytes = <<>> THEN (IF cur = <<>> THEN <<>> ELSE <<cur>>)
    ELSE IF Head(bytes) < 128
    THEN <<Append(cur, Head(bytes))>> \o Groups(Tail(bytes), <<>>)
    ELSE Groups(Tail(bytes), Append(cur, Head(bytes)))

\* a group of at most 31 bits of digits
Fits31(g) == Len(g) <= 4 \/ (Len(g) = 5 /\ g[1] % 128 < 8)

\* the number whose base-128 digits, most significant first, are the low 7 bits
\* of the bytes of g
RECURSIVE DigitsValue(_)
DigitsValue(g) ==
    IF g = <<>> THEN 0
    ELSE 128 * DigitsValue(SubSeq(g, 1, Len(g) - 1)) + (g[Len(g)] % 128)

\* the k-th byte of the pointer table of the file being parsed
T(k) == file[pointer_offset + k]

StandaloneZero(k) == T(k) = 0 /\ (k = 1 \/ T(k - 1) < 128)

\* a run of Sir0::new
Parsing == pc \in {"new", "offsets", "clone", "seek", "decode", "done"}

\* the decoding loop has been entered
Decoding ==
    \/ pc = "decode"
    \/ pc = "done" /\ result.kind \in {"Ok", "AbsolutePointerOverflow"}

FirstFour(f) == SubSeq(f, 1, 4)

WrongMagic(f) == Len(f) < 4 \/ FirstFour(f) # MAGIC

FieldHO(f) == f[5] + 256 * f[6] + 65536 * f[7] + 16777216 * f[8]

FieldPO(f) == f[9] + 256 * f[10] + 65536 * f[11] + 16777216 * f[12]

\* valid magic, header_offset <= pointer_table_offset, payload range readable
PayloadRead(f) ==
    /\ Len(f) >= 12
    /\ FirstFour(f) = MAGIC
    /\ FieldHO(f) <= FieldPO(f)
    /\ (FieldHO(f) = FieldPO(f) \/ FieldPO(f) <= Len(f))

\* the delta completed by reading the byte b (below 128) in the loop state d:
\* the accumulator shifted by 7 with b in its low bits, or b alone
DeltaRead(d, b) ==
    IF d.is_constructing THEN fold7(d.constructed_pointer, b) ELSE U64(0, 0, b)

AltBytes == {0, 4, 127, 128, 255}

\* the file f with its last byte replaced by b
WithLastByte(f, b) == [f EXCEPT ![Len(f)] = b]

\* the same error kind, or containers with equal offsets and equal header
SameOutcome(r1, r2) ==
    /\ r1.kind = r2.kind
    /\ r1.sir0.present = r2.sir0.present
    /\ r1.sir0.offsets = r2.sir0.offsets
    /\ r1.sir0.header = r2.sir0.header

(***************************************************************************)
(* C1.  Round trip as stated: for every non-decreasing list, repeated      *)
(* values and a leading 0 included, decoding the bytes write_sir0_footer   *)
(* wrote (budget = the number of bytes written) yields exactly the list.   *)
(***************************************************************************)
C1_RoundTripExact ==
    pc = "readback" =>
        /\ readback.kind = "Ok"
        /\ AllSmall(readback.sir0.offsets)
        /\ Values(readback.sir0.offsets) = list

\* C1 as amended: decoding the written bytes yields the list without the entries
\* equal to their predecessor (the predecessor of the first entry being 0), same
\* values, same order; so exactly the list when it is strictly increasing from
\* a first entry above 0.
C1_RoundTripKept ==
    pc = "readback" =>
        /\ Sorted(list)
        /\ readback.kind = "Ok"
        /\ AllSmall(readback.sir0.offsets)
        /\ Values(readback.sir0.offsets) = Kept(list, Len(list))
        /\ ((\A k \in 1 .. Len(list) : Delta(list, k) > 0)
               => Values(readback.sir0.offsets) = list)

C1_Witness ==
    /\ pc = "readback"
    /\ Len(list) = 3
    /\ Delta(list, 2) = 0
    /\ Delta(list, 3) >= 16384
    /\ Len(readback.sir0.offsets) = 2

(***************************************************************************)
(* C2.  As stated: write_sir0_footer on [4, 8] succeeds and writes exactly *)
(* the two bytes [0x04, 0x08].                                             *)
(***************************************************************************)
C2_FourEightAbsolute ==
    (list = <<4, 8>> /\ pc \in {"written", "readback"}) =>
        (wresult.kind = "Ok" /\ sink = <<4, 8>>)

\* C2 as amended: write_sir0_footer on [4, 8] succeeds and writes exactly the
\* two bytes [0x04, 0x04], two standalone one-byte deltas without the
\* continuation bit.
C2_FourEightDeltas ==
    (list = <<4, 8>> /\ pc \in {"written", "readback"}) =>
        (wresult.kind = "Ok" /\ sink = <<4, 4>>)

C2_Witness == list = <<4, 8>> /\ pc = "written" /\ Len(sink) = 2

(***************************************************************************)
(* C3.  After any number of entries of a non-decreasing list, the bytes    *)
(* written are, in input order, one group per entry with a non-zero delta: *)
(* the base-128 digits of the delta, most significant first, no leading    *)
(* zero digit, bit 0x80 set on every byte but the last of the group;       *)
(* entries with delta 0 write nothing, nothing is appended at the end, a   *)
(* first delta of 130 writes [0x81, 0x02], and no byte computation         *)
(* exceeds 8 bits.                                                         *)
(***************************************************************************)
C3_GroupsOfDeltas ==
    (pc \in {"write", "written", "readback"}) =>
        LET G == Groups(sink, <<>>)
            D == NonZeroDeltas(list, idx)
        IN  /\ ~u8_overflow
            /\ \A k \in 1 .. Len(sink) : sink[k] \in 0 .. 255
            /\ (sink # <<>> => sink[Len(sink)] < 128)
            /\ Len(G) = Len(D)
            /\ \A j \in 1 .. Len(G) :
                  /\ Fits31(G[j])
                  /\ G[j][1] % 128 # 0
                  /\ DigitsValue(G[j]) = D[j]
            /\ ((idx >= 1 /\ list[1] = 130) => SubSeq(sink, 1, 2) = <<129, 2>>)

C3_Witness ==
    /\ pc = "written"
    /\ Len(list) = 3
    /\ list[1] = 130
    /\ Delta(list, 2) = 0
    /\ Delta(list, 3) >= 16384
    /\ Len(sink) >= 5

(***************************************************************************)
(* C4.  write_sir0_footer on the decreasing list [8, 4] fails with         *)
(* NotSorted whose two fields are, in order, (8, 4).                       *)
(***************************************************************************)
C4_NotSortedFields ==
    (list = <<8, 4>> /\ pc = "wfailed") =>
        (wresult.kind = "NotSorted" /\ wresult.args = <<8, 4>>)

(***************************************************************************)
(* C5.  As stated: Sir0::new on a file shorter than 4 bytes, or whose      *)
(* first 4 bytes are not the magic, fails with InvalidMagic.               *)
(***************************************************************************)
C5_AlwaysInvalidMagic ==
    (pc = "done" /\ WrongMagic(file)) => result.kind = "InvalidMagic"

\* C5 as amended: on a file of at least 4 bytes whose first 4 bytes are not the
\* magic Sir0::new fails with InvalidMagic carrying those 4 bytes; on a file
\* shorter than 4 bytes it fails with IOError, the read failure passed on; in
\* both cases it returns at its first step, with no container.
C5_MagicRejection ==
    (Parsing /\ WrongMagic(file)) =>
        /\ pc \in {"new", "done"}
        /\ (pc = "new" => ENABLED ReadMagic)
        /\ (pc = "done" =>
              /\ ~result.sir0.present
              /\ IF Len(file) < 4
                 THEN result.kind = "IOError"
                 ELSE result.kind = "InvalidMagic" /\ result.args = FirstFour(file))

C5_Witness ==
    /\ pc = "done"
    /\ Len(file) >= 13
    /\ FirstFour(file) = <<83, 73, 82, 49>>
    /\ result.kind = "InvalidMagic"

(***************************************************************************)
(* C6.  As stated: with a valid magic, header_offset <= pointer_offset and *)
(* a successful payload read, pointer_offset >= file_length - 1 (the       *)
(* boundary pointer_offset = file_length - 1 included) makes Sir0::new     *)
(* fail with PointerOffsetPostOrAtFileEnd(pointer_offset, file_length).    *)
(***************************************************************************)
C6_AtOrPastLastByte ==
    (pc = "done" /\ PayloadRead(file) /\ FieldPO(file) >= Len(file) - 1) =>
        result = Err("PointerOffsetPostOrAtFileEnd", <<FieldPO(file), Len(file)>>)

\* C6 as amended: with a valid magic, header_offset <= pointer_offset and a
\* successful payload read, pointer_offset >= file_length makes Sir0::new fail
\* with PointerOffsetPostOrAtFileEnd(pointer_offset, file_length) and return no
\* container; at the boundary pointer_offset = file_length - 1 it succeeds with
\* an empty offset sequence.
C6_AtOrPastFileEnd ==
    (pc = "done" /\ PayloadRead(file)) =>
        /\ (FieldPO(file) >= Len(file) =>
              /\ result = Err("PointerOffsetPostOrAtFileEnd",
                              <<FieldPO(file), Len(file)>>)
              /\ ~result.sir0.present)
        /\ (FieldPO(file) = Len(file) - 1 =>
              /\ result.kind = "Ok"
              /\ result.sir0.offsets = <<>>)

C6_Witness ==
    /\ pc = "done"
    /\ PayloadRead(file)
    /\ FieldHO(file) < FieldPO(file)
    /\ FieldPO(file) = Len(file)
    /\ result.kind = "PointerOffsetPostOrAtFileEnd"

(***************************************************************************)
(* C7.  Folding 7 more bits into the 64-bit accumulator is a checked       *)
(* shift: a step that shifts an accumulator whose bits 57..63 are not all  *)
(* zero makes Sir0::new return an error.                                   *)
(***************************************************************************)
C7_CheckedShift ==
    [][(/\ pc = "decode"
        /\ i < remaining_bytes
        /\ (T(i + 1) >= 128 \/ dec.is_constructing)
        /\ dec.constructed_pointer.hi >= 2)
       => (pc' = "done" /\ result'.kind \notin {"Ok", "none"})]_vars

(***************************************************************************)
(* C8.  The decoding loop stops, with success, at the first standalone     *)
(* 0x00 (a zero byte read outside a multi-byte group) or after             *)
(* file_length - pointer_offset - 1 bytes, whichever comes first, and      *)
(* reads no table byte after that; a 0x00 ending a multi-byte group does   *)
(* not stop it; a table starting with 0x00 gives success with no offsets.  *)
(***************************************************************************)
C8_StopsAtTerminatorOrBudget ==
    Decoding =>
        /\ remaining_bytes = Len(file) - pointer_offset - 1
        /\ i <= remaining_bytes
        /\ pos = pointer_offset + i
        /\ \A k \in 1 .. i - 1 : ~StandaloneZero(k)
        /\ ((i >= 1 /\ StandaloneZero(i)) =>
              /\ pc = "done"
              /\ result = Ok(dec.absolute_pointers, header))
        /\ ((pc = "done" /\ result.kind = "Ok") =>
              /\ (i = remaining_bytes \/ StandaloneZero(i))
              /\ result = Ok(dec.absolute_pointers, header))
        /\ ((i >= 2 /\ i < remaining_bytes /\ T(i) = 0 /\ T(i - 1) >= 128
               /\ result.kind # "AbsolutePointerOverflow") => pc = "decode")
        /\ ((pc = "done" /\ remaining_bytes >= 1 /\ T(1) = 0) =>
              (i = 1 /\ result.kind = "Ok" /\ result.sir0.offsets = <<>>))

C8_Witness ==
    /\ pc = "done"
    /\ result.kind = "Ok"
    /\ i < remaining_bytes
    /\ StandaloneZero(i)
    /\ \E k \in 2 .. i - 1 : T(k) = 0 /\ T(k - 1) >= 128
    /\ Len(result.sir0.offsets) >= 1

(***************************************************************************)
(* C9.  At every step of decoding and in every container returned, the     *)
(* offsets are non-decreasing, and each appended value is the running      *)
(* position plus the decoded delta, exactly: when that sum does not fit in *)
(* 64 bits nothing is appended and the result is                           *)
(* AbsolutePointerOverflow(position, delta).                               *)
(***************************************************************************)
C9_OffsetsNonDecreasing ==
    /\ NonDecreasing(dec.absolute_pointers)
    /\ NonDecreasing(result.sir0.offsets)
    /\ (dec.absolute_pointers # <<>> =>
          dec.absolute_pointers[Len(dec.absolute_pointers)] = dec.absolute_position)

C9_ExactAppend ==
    (pc = "decode" /\ i < remaining_bytes /\ T(i + 1) < 128
       /\ ~(T(i + 1) = 0 /\ ~dec.is_constructing)) =>
        LET old == dec.absolute_position
            delta == DeltaRead(dec, T(i + 1))
        IN  IF SumOverflows(old, delta)
            THEN /\ dec'.absolute_pointers = dec.absolute_pointers
                 /\ pc' = "done"
                 /\ result' = Err("AbsolutePointerOverflow", <<old, delta>>)
            ELSE /\ Len(dec'.absolute_pointers) = Len(dec.absolute_pointers) + 1
                 /\ SubSeq(dec'.absolute_pointers, 1, Len(dec.absolute_pointers))
                       = dec.absolute_pointers
                 /\ Le64(old, dec'.absolute_position)
                 /\ Sub64(dec'.absolute_position, old) = delta
                 /\ dec'.absolute_pointers[Len(dec'.absolute_pointers)]
                       = dec'.absolute_position
                 /\ pc' = "decode"

\* C9: the offsets are non-decreasing in every state, and every step that
\* completes a delta either appends exactly position + delta or, when that sum
\* does not fit in 64 bits, appends nothing and returns AbsolutePointerOverflow.
C9_MonotoneOffsets == []C9_OffsetsNonDecreasing /\ [][C9_ExactAppend]_vars

C9_Witness ==
    /\ pc = "done"
    /\ result.kind = "AbsolutePointerOverflow"
    /\ Len(dec.absolute_pointers) >= 1
    /\ dec.absolute_position.hi >= 128

(***************************************************************************)
(* C10.  The last byte of the file is never decoded as table data: table   *)
(* bytes are read only at positions in [pointer_offset, file_length - 1),  *)
(* and two files of equal length >= 13 that differ only in their last byte *)
(* get the same outcome (the same error kind, or containers with equal     *)
(* offsets and equal header).  So a last group ending on the file's last   *)
(* byte, or cut by the budget, gives success and no position.              *)
(***************************************************************************)
C10_LastByteIgnored ==
    /\ ((pc = "decode" /\ i < remaining_bytes) =>
          (pointer_offset <= pos /\ pos < Len(file) - 1))
    /\ ((pc = "done" /\ Len(file) >= 13) =>
          \A b \in AltBytes : SameOutcome(result, Sir0_new(WithLastByte(file, b))))
    /\ ((pc = "done" /\ result.kind = "Ok") =>
          Len(result.sir0.offsets) =
              Cardinality({k \in 1 .. i : T(k) < 128 /\ ~(k = i /\ StandaloneZero(k))}))

C10_Witness ==
    /\ pc = "done"
    /\ result.kind = "Ok"
    /\ dec.is_constructing
    /\ file[Len(file)] = 127
    /\ Len(result.sir0.offsets) >= 1

====
